---- MODULE Spec2Model ----
(***************************************************************************)
(* State-machine model of the LTP syscall conformance programs of this     *)
(* repository: fgetxattr02, access04, chmod05 (+ chmod05_child), rename07  *)
(* (run program and fixture program), the rename04 fixture program and    *)
(* the fcntl F_SETLEASE test.                                              *)
(* One behaviour is one program, chosen in Init (prog), run against a tiny *)
(* file system (fs) that outlives the process, so that a program can be    *)
(* started a second time on what its first run left behind.                *)
(***************************************************************************)
EXTENDS Integers, Sequences, FiniteSets, TLC

VARIABLES
    prog,          \* which program this behaviour runs
    run,           \* 1 for the first start of the program, 2 for a restart
    pc,            \* position of the (parent) process
    STD_LOOP_COUNT,\* -i n of the harness: iterations of the test body
    lc,            \* iterations completed
    caseNo,        \* index of the next case of the case table
    results,       \* results reported by the latest step (tst_res / tst_brk)
    verdicts,      \* every result type reported during this run
    last,          \* the latest invocation of the syscall under test
    fs,            \* file system: path -> object
    tc,            \* fgetxattr02: the case table (mutable static data)
    open_files,    \* fgetxattr02: descriptor table of the test process
    kver,          \* fgetxattr02: running kernel version
    brkCase,       \* fgetxattr02: the case whose call ended in tst_brk(TCONF),
                   \* and the cases invoked after it
    longpathname,  \* access04: static char longpathname[PATH_MAX + 2]
    cred,          \* chmod05: credentials of the test process
    child,         \* chmod05: the forked child
    chmod_cred,    \* chmod05: credentials chmod(TESTDIR, PERMS) ran under
    tmpdir,        \* rename fixtures: tst_tmpdir()'s directory exists
    fs_left,       \* the file system as the previous run of the program left it
    statbuf,       \* rename07: the paths whose SAFE_STAT filled buf1 / buf2
    lease_break_time, \* fcntl lease test: content of /proc/sys/fs/lease-break-time
    ls_brk_t,      \* fcntl lease test: static int ls_brk_t
    fs_type        \* fcntl lease test: tst_fs_type(".")

vars == <<prog, run, pc, STD_LOOP_COUNT, lc, caseNo, results, verdicts, last, fs,
          tc, open_files, kver, brkCase, longpathname, cred, child,
          chmod_cred, tmpdir, fs_left, statbuf, lease_break_time, ls_brk_t, fs_type>>

leaseVars == <<lease_break_time, ls_brk_t, fs_type>>

\* ------------------------------------------------------------- bounds
MaxIter == 2
MaxRuns == 2

\* ------------------------------------------------------------- errno values
EPERM == 1
ENOENT == 2
EACCES == 13
EEXIST == 17
ENOTDIR == 20
EISDIR == 21
EINVAL == 22
EROFS == 30
ENAMETOOLONG == 36
ENOTEMPTY == 39
ELOOP == 40
ENODATA == 61
EOPNOTSUPP == 95
EBADF == 9
EFAULT == 14

NoCase == (-1)
NULL == "NULL"

Res(t, m) == [ttype |-> t, msg |-> m]
Types(rs) == {rs[k].ttype : k \in 1..Len(rs)}
NoBrk == [i |-> NoCase, after |-> {}]
NoCall == [i |-> NoCase, ret |-> 0, err |-> 0, mem |-> <<>>]

\* ------------------------------------------------------------- file system
Absent == [type |-> "none", target |-> "", uid |-> "", gid |-> "", mode |-> {}]
Obj(t, tg, u, g, m) == [type |-> t, target |-> tg, uid |-> u, gid |-> g, mode |-> m]

\* Mode bits as sets of bit positions: & is \cap, | is \cup.
S_IRWXO == {0, 1, 2}
S_IRWXG == {3, 4, 5}
S_IRWXU == {6, 7, 8}
S_ISVTX == {9}
S_ISGID == {10}
S_ISUID == {11}
S_IFDIR == {14}
S_IFREG == {15}
S_IFLNK == {13, 15}
S_IALLUGO == 0..11

\* ------------------------------------------------------------- fgetxattr02
XATTR_TEST_VALUE ==
    <<116, 104, 105, 115, 32, 105, 115, 32, 97, 32,
      116, 101, 115, 116, 32, 118, 97, 108, 117, 101>>
XATTR_TEST_VALUE_SIZE == 20

FILENAME == "/tmp/fgetxattr02testfile"
DIRNAME == "/tmp/fgetxattr02testdir"
SYMLINK == "fgetxattr02symlink"
FIFO == "/tmp/mntpoint/fgetxattr02fifo"
CHR == "/tmp/mntpoint/fgetxattr02chr"
BLK == "/tmp/mntpoint/fgetxattr02blk"
SOCK == "fgetxattr02sock"

TcEntry(f, e, r) ==
    [fname |-> f, fd |-> 0, ret_value |-> NULL, size |-> XATTR_TEST_VALUE_SIZE,
     exp_err |-> e, exp_ret |-> r]

\* static struct test_case tc[]: fd is 0 and ret_value NULL by static initialisation
tc_static ==
    <<TcEntry(FILENAME, 0, XATTR_TEST_VALUE_SIZE),
      TcEntry(DIRNAME, 0, XATTR_TEST_VALUE_SIZE),
      TcEntry(SYMLINK, 0, XATTR_TEST_VALUE_SIZE),
      TcEntry(FIFO, ENODATA, -1),
      TcEntry(CHR, ENODATA, -1),
      TcEntry(BLK, ENODATA, -1),
      TcEntry(SOCK, ENODATA, -1)>>

\* tc[] is indexed from 0 in the C code; the sequence is indexed from 1
fgx_tcnt == Len(tc_static)
TC(t, i) == t[i + 1]

\* kernel versions the test may run on
KVers == {<<2, 6, 32>>, <<3, 0, 0>>, <<4, 19, 0>>}

Sign(x) == IF x < 0 THEN -1 ELSE IF x > 0 THEN 1 ELSE 0

\* tst_kvercmp(r1, r2, r3): running version minus the given one, compared as
\* (major << 16) + (minor << 8) + patch
tst_kvercmp(kv, r1, r2, r3) ==
    Sign((kv[1] * 65536 + kv[2] * 256 + kv[3]) - (r1 * 65536 + r2 * 256 + r3))

\* strncmp(s1, s2, n) on NUL-terminated strings given without their NUL
RECURSIVE strncmp(_, _, _)
strncmp(s1, s2, n) ==
    IF n = 0 THEN 0
    ELSE IF s1 = <<>> /\ s2 = <<>> THEN 0
    ELSE IF s1 = <<>> THEN -1
    ELSE IF s2 = <<>> THEN 1
    ELSE IF Head(s1) # Head(s2) THEN Sign(Head(s1) - Head(s2))
    ELSE strncmp(Tail(s1), Tail(s2), n - 1)

\* What fgetxattr can answer: -1 with an errno, or the length of the value
FgxRets == {-1, 0, 5, XATTR_TEST_VALUE_SIZE}
FgxErrnos == {ENODATA, EPERM, EOPNOTSUPP, EBADF, EFAULT}

\* What the buffer strncmp() reads can hold
Buffers ==
    {XATTR_TEST_VALUE,
     XATTR_TEST_VALUE \o <<33>>,
     SubSeq(XATTR_TEST_VALUE, 1, 19) \o <<69>>,
     SubSeq(XATTR_TEST_VALUE, 1, 5),
     <<>>}

\* strncmp(tc[i].ret_value, ...) with ret_value NULL is undefined: the process
\* is killed, or the read yields some bytes
Read(k, b) == [kind |-> k, buf |-> b]
NullReads == {Read("SIGSEGV", <<>>)} \cup {Read("bytes", b) : b \in Buffers}
\* with a buffer behind ret_value the read yields the bytes fgetxattr stored there
BufferReads == {Read("bytes", b) : b \in Buffers}

\* lines 196-197: the expected errno of a case, adjusted in place
adjust_exp_err_always(e, kv) ==
    IF e = ENODATA THEN EPERM ELSE e

adjust_exp_err(e, kv) ==
    IF e = ENODATA /\ tst_kvercmp(kv, 3, 0, 0) < 0 THEN EPERM ELSE e

\* lines 172-179: the return-value result of a successful call
ret_result(exp_ret, ret) ==
    IF exp_ret = ret THEN Res("TPASS", "passed")
    ELSE Res("TFAIL", "passed unexpectedly")

\* lines 181-188: the payload results of a successful call
payload_results(buf) ==
    (IF strncmp(buf, XATTR_TEST_VALUE, XATTR_TEST_VALUE_SIZE) # 0
     THEN <<Res("TFAIL", "wrong value")>> ELSE <<>>)
    \o <<Res("TPASS", "got the right value")>>

\* lines 199-205: the errno result
errno_result(exp_err, err) ==
    IF exp_err = err THEN Res("TPASS", "errno passed")
    ELSE Res("TFAIL", "failed")

\* cleanup(), lines 211-221: free(ret_value); close every fd > 0
cleanup_files(t, of) ==
    [fd \in DOMAIN of \ {TC(t, i).fd : i \in {j \in 0..(fgx_tcnt - 1) : TC(t, j).fd > 0}}
        |-> of[fd]]

\* the runner's step after test(i) returned: next case, next iteration, or cleanup
Advance(i, n) ==
    IF i + 1 < n
    THEN /\ caseNo' = i + 1
         /\ lc' = lc
         /\ pc' = "run"
    ELSE /\ caseNo' = 0
         /\ lc' = lc + 1
         /\ pc' = IF lc + 1 < STD_LOOP_COUNT THEN "run" ELSE "cleanup"

otherVarsFgx == <<prog, run, fs_left, statbuf, leaseVars, STD_LOOP_COUNT, fs, kver, longpathname, cred, child,
                  chmod_cred, tmpdir>>

\* setup(), lines 208-209: empty
fgx_setup ==
    /\ prog = "fgetxattr02" /\ pc = "setup"
    /\ pc' = "run"
    /\ results' = <<>>
    /\ UNCHANGED <<lc, caseNo, verdicts, last, tc, open_files, brkCase>>
    /\ UNCHANGED otherVarsFgx

\* lines 167-168 as tst_res would behave: the skip is recorded, the run goes on
brk_TCONF_returns(i) ==
    /\ results' = <<Res("TCONF", "fgetxattr(2) not supported")>>
    /\ verdicts' = verdicts \cup {"TCONF"}
    /\ brkCase' = [i |-> i, after |-> {}]
    /\ Advance(i, fgx_tcnt)
    /\ UNCHANGED <<tc, open_files>>

\* lines 167-168: tst_brk(TCONF, ...) reports, runs cleanup() and exits the test
brk_TCONF(i) ==
    /\ results' = <<Res("TCONF", "fgetxattr(2) not supported")>>
    /\ verdicts' = verdicts \cup {"TCONF"}
    /\ brkCase' = [i |-> i, after |-> {}]
    /\ open_files' = cleanup_files(tc, open_files)
    /\ pc' = "done"
    /\ UNCHANGED <<tc, lc, caseNo>>

\* case i is invoked: noted when a tst_brk(TCONF) came before it
invoked_after(b, i) ==
    IF b.i = NoCase THEN b ELSE [b EXCEPT !.after = @ \cup {i}]

\* verify_fgetxattr(i), lines 161-206, i the runner's current case
verify_fgetxattr ==
    /\ prog = "fgetxattr02" /\ pc = "run"
    /\ LET i == caseNo
           c == TC(tc, i)
           e2 == adjust_exp_err(c.exp_err, kver)
           tc2 == [tc EXCEPT ![i + 1].exp_err = e2]
       IN
       \/ \* fgetxattr failed
          \E err \in FgxErrnos :
            /\ last' = [i |-> i, ret |-> -1, err |-> err, mem |-> <<>>]
            /\ IF err = EOPNOTSUPP
               THEN brk_TCONF(i)
               ELSE /\ tc' = tc2
                    /\ results' = <<errno_result(e2, err)>>
                    /\ verdicts' = verdicts \cup Types(results')
                    /\ Advance(i, fgx_tcnt)
                    /\ brkCase' = invoked_after(brkCase, i)
                    /\ UNCHANGED open_files
       \/ \* fgetxattr succeeded; TEST() left TST_ERR = 0
          \E ret \in FgxRets \ {-1} :
          \E rd \in (IF c.ret_value = NULL THEN NullReads ELSE BufferReads) :
            /\ last' = [i |-> i, ret |-> ret, err |-> 0, mem |-> rd.buf]
            /\ IF rd.kind = "SIGSEGV"
               THEN /\ results' = <<ret_result(c.exp_ret, ret)>>
                    /\ verdicts' = verdicts \cup Types(results') \cup {"TBROK"}
                    /\ pc' = "killed"
                    /\ brkCase' = invoked_after(brkCase, i)
                    /\ UNCHANGED <<tc, lc, caseNo, open_files>>
               ELSE /\ tc' = tc2
                    /\ results' = <<ret_result(c.exp_ret, ret)>>
                                   \o payload_results(rd.buf)
                                   \o <<errno_result(e2, 0)>>
                    /\ verdicts' = verdicts \cup Types(results')
                    /\ Advance(i, fgx_tcnt)
                    /\ brkCase' = invoked_after(brkCase, i)
                    /\ UNCHANGED open_files
    /\ UNCHANGED otherVarsFgx

\* cleanup(), lines 211-221, at the end of the run
fgx_cleanup ==
    /\ prog = "fgetxattr02" /\ pc = "cleanup"
    /\ open_files' = cleanup_files(tc, open_files)
    /\ pc' = "done"
    /\ UNCHANGED <<lc, caseNo, results, verdicts, last, tc, brkCase>>
    /\ UNCHANGED otherVarsFgx

\* ------------------------------------------------------------- system calls
\* The kernel's side of the calls the programs make, on the model file system.
Parent(p) == IF p = "/tmp/rename04_mdir/rename04_tstfile" THEN "/tmp/rename04_mdir" ELSE "/tmp"
IsDirPath(f, d) == d = "/tmp" \/ f[d].type = "dir"
NonEmpty(f, d) == \E p \in DOMAIN f : Parent(p) = d /\ f[p].type # "none"

Ok(f) == [ret |-> 0, err |-> 0, fs |-> f]
Fail(e, f) == [ret |-> -1, err |-> e, fs |-> f]

\* open(path, O_CREAT | O_WRONLY, mode) + close + utimensat, as SAFE_TOUCH does
sys_touch(f, p, mode, cr) ==
    IF ~IsDirPath(f, Parent(p)) THEN Fail(ENOTDIR, f)
    ELSE IF f[p].type = "dir" THEN Fail(EISDIR, f)
    ELSE IF f[p].type = "none"
         THEN Ok([f EXCEPT ![p] = Obj("reg", "", cr.euid, cr.egid, mode)])
    ELSE Ok(f)

sys_mkdir(f, p, mode, cr) ==
    IF f[p].type # "none" THEN Fail(EEXIST, f)
    ELSE IF ~IsDirPath(f, Parent(p)) THEN Fail(ENOTDIR, f)
    ELSE Ok([f EXCEPT ![p] = Obj("dir", "", cr.euid, cr.egid, mode)])

sys_symlink(f, target, linkpath, cr) ==
    IF f[linkpath].type # "none" THEN Fail(EEXIST, f)
    ELSE Ok([f EXCEPT ![linkpath] = Obj("lnk", target, cr.euid, cr.egid, S_IRWXU \cup S_IRWXG \cup S_IRWXO)])

sys_chown(f, p, u, g, cr) ==
    IF f[p].type = "none" THEN Fail(ENOENT, f)
    ELSE IF cr.euid # "root" THEN Fail(EPERM, f)
    ELSE Ok([f EXCEPT ![p].uid = u, ![p].gid = g])

\* chmod(2): owner or root only; a caller without CAP_FSETID that is not in the
\* object's group loses S_ISGID
sys_chmod(f, p, mode, cr) ==
    IF f[p].type = "none" THEN Fail(ENOENT, f)
    ELSE IF cr.euid # "root" /\ cr.euid # f[p].uid THEN Fail(EPERM, f)
    ELSE LET m == mode \cap S_IALLUGO
             kept == IF cr.euid # "root" /\ f[p].gid \notin (cr.groups \cup {cr.egid})
                     THEN m \ S_ISGID ELSE m
         IN Ok([f EXCEPT ![p].mode = kept])

TypeBits(t) ==
    IF t = "dir" THEN S_IFDIR ELSE IF t = "reg" THEN S_IFREG ELSE S_IFLNK

\* stat(2): st_mode of an existing object
st_mode(f, p) == TypeBits(f[p].type) \cup f[p].mode

\* rename(2) of old onto new
sys_rename(f, old, new) ==
    IF f[old].type = "none" THEN Fail(ENOENT, f)
    ELSE IF f[new].type = "none"
         THEN Ok([f EXCEPT ![new] = f[old], ![old] = Absent])
    ELSE IF f[old].type = "dir" /\ f[new].type # "dir" THEN Fail(ENOTDIR, f)
    ELSE IF f[old].type # "dir" /\ f[new].type = "dir" THEN Fail(EISDIR, f)
    ELSE IF f[new].type = "dir" /\ NonEmpty(f, new) THEN Fail(ENOTEMPTY, f)
    ELSE Ok([f EXCEPT ![new] = f[old], ![old] = Absent])

\* setegid / seteuid / setgroups
may_setegid(cr, g) == cr.euid = "root" \/ g \in {cr.rgid, cr.egid, cr.sgid}
may_seteuid(cr, u) == cr.euid = "root" \/ u \in {cr.ruid, cr.euid, cr.suid}

RootCred ==
    [ruid |-> "root", euid |-> "root", suid |-> "root",
     rgid |-> "root", egid |-> "root", sgid |-> "root", groups |-> {"root"}]
NoCred ==
    [ruid |-> "", euid |-> "", suid |-> "", rgid |-> "", egid |-> "", sgid |-> "",
     groups |-> {}]
NoChild == [pc |-> "none", cred |-> NoCred, status |-> 0]

\* tst_brk(TBROK) of a SAFE_ macro in setup: report, clean up, exit
Broken ==
    /\ results' = <<Res("TBROK", "setup")>>
    /\ verdicts' = verdicts \cup {"TBROK"}
    /\ pc' = "done"

\* ------------------------------------------------------------- access04
FNAME1 == "/tmp/accessfile1"
FNAME2 == "/tmp/accessfile2/accessfile2"
DNAME == "/tmp/accessfile2"
SNAME1 == "/tmp/symlink1"
SNAME2 == "/tmp/symlink2"
MNT_POINT == "/tmp/access04"
PATH_MAX == 4096
W_OK == 2
R_OK == 4

Mode0333 == {0, 1, 3, 4, 6, 7}
Mode0644 == {2, 5, 7, 8}
Mode0770 == S_IRWXU \cup S_IRWXG
Mode0700 == S_IRWXU

\* tcases[]: the third pathname is the longpathname array
tcases ==
    <<[pathname |-> FNAME1, mode |-> -1, exp_errno |-> EINVAL],
      [pathname |-> "", mode |-> W_OK, exp_errno |-> ENOENT],
      [pathname |-> "longpathname", mode |-> R_OK, exp_errno |-> ENAMETOOLONG],
      [pathname |-> FNAME2, mode |-> R_OK, exp_errno |-> ENOTDIR],
      [pathname |-> SNAME1, mode |-> R_OK, exp_errno |-> ELOOP],
      [pathname |-> MNT_POINT, mode |-> W_OK, exp_errno |-> EROFS]>>
acc_tcnt == Len(tcases)

otherVarsAcc == <<prog, run, fs_left, statbuf, leaseVars, STD_LOOP_COUNT, tc, open_files, kver, brkCase,
                  longpathname, cred, child, chmod_cred, tmpdir>>

\* setup(), lines 63-70
acc_setup ==
    /\ prog = "access04" /\ pc = "setup"
    /\ LET t1 == sys_touch(fs, FNAME1, Mode0333, cred)
           t2 == IF t1.ret = 0 THEN sys_touch(t1.fs, DNAME, Mode0644, cred) ELSE t1
           s1 == IF t2.ret = 0 THEN sys_symlink(t2.fs, SNAME1, SNAME2, cred) ELSE t2
           s2 == IF s1.ret = 0 THEN sys_symlink(s1.fs, SNAME2, SNAME1, cred) ELSE s1
       IN /\ fs' = s2.fs
          /\ IF s2.ret = 0
             THEN /\ pc' = "run"
                  /\ results' = <<>>
                  /\ UNCHANGED verdicts
             ELSE Broken
    /\ UNCHANGED <<lc, caseNo, last>>
    /\ UNCHANGED otherVarsAcc

\* verify_access(n), lines 58-61: reports TPASS; access() is not called
verify_access ==
    /\ prog = "access04" /\ pc = "run"
    /\ results' = <<Res("TPASS", "No test function defined")>>
    /\ verdicts' = verdicts \cup {"TPASS"}
    /\ Advance(caseNo, acc_tcnt)
    /\ UNCHANGED <<last, fs>>
    /\ UNCHANGED otherVarsAcc

\* struct tst_test, lines 72-80: no cleanup hook; the process exits
acc_exit ==
    /\ prog = "access04" /\ pc = "cleanup"
    /\ pc' = "done"
    /\ UNCHANGED <<lc, caseNo, results, verdicts, last, fs>>
    /\ UNCHANGED otherVarsAcc

\* ------------------------------------------------------------- chmod05
MODE_RWX == S_IRWXU \cup S_IRWXG \cup S_IRWXO
DIR_MODE == S_ISVTX \cup S_ISGID \cup S_IFDIR
PERMS == MODE_RWX \cup DIR_MODE
TESTDIR == "/tmp/testdir"

\* exit status of a process whose main returned r, as wait() stores it
ExitStatus(r) == (r % 256) * 256
TBROK_EXIT == 2

otherVarsChm == <<prog, run, fs_left, statbuf, leaseVars, STD_LOOP_COUNT, tc, open_files, kver, brkCase, longpathname,
                  tmpdir>>

\* setup(), chmod05_setup.c lines 86-105
chmod05_setup ==
    /\ prog = "chmod05" /\ pc = "setup"
    /\ LET mk == sys_mkdir(fs, TESTDIR, MODE_RWX, cred)
           c1 == [cred EXCEPT !.groups = {"nobody"}]
           ch == sys_chown(mk.fs, TESTDIR, "nobody", "bin", c1)
           c2 == [c1 EXCEPT !.egid = "nobody"]
           c3 == [c2 EXCEPT !.euid = "nobody"]
       IN IF mk.ret = -1
          THEN Broken /\ UNCHANGED <<fs, cred>>
          ELSE IF cred.euid # "root" \/ ch.ret = -1
          THEN Broken /\ fs' = mk.fs /\ UNCHANGED cred
          ELSE IF ~may_setegid(c1, "nobody") \/ ~may_seteuid(c2, "nobody")
          THEN Broken /\ fs' = ch.fs /\ cred' = c1
          ELSE /\ fs' = ch.fs
               /\ cred' = c3
               /\ pc' = "run"
               /\ results' = <<>>
               /\ UNCHANGED verdicts
    /\ UNCHANGED <<lc, caseNo, last, child, chmod_cred>>
    /\ UNCHANGED otherVarsChm

\* test_chmod(), line 59: SAFE_FORK(); the parent goes on to SAFE_WAIT
test_chmod_fork ==
    /\ prog = "chmod05" /\ pc = "run"
    /\ child' = [pc |-> "forked", cred |-> cred, status |-> 0]
    /\ pc' = "wait"
    /\ results' = <<>>
    /\ UNCHANGED <<lc, caseNo, verdicts, last, fs, cred, chmod_cred>>
    /\ UNCHANGED otherVarsChm

\* the child's identity before exec, lines 61-63, kept as the code has it
child_identity(cr) ==
    [cr EXCEPT !.egid = "root", !.euid = "root"]

\* test_chmod(), lines 60-66, in the child: become root:root, exec chmod05_child
test_chmod_child ==
    /\ prog = "chmod05" /\ child.pc = "forked"
    /\ \E execOk \in BOOLEAN :
         IF may_setegid(child.cred, "root")
            /\ may_seteuid([child.cred EXCEPT !.egid = "root"], "root")
            /\ execOk
         THEN child' = [child EXCEPT !.pc = "exec", !.cred = child_identity(child.cred)]
         ELSE child' = [child EXCEPT !.pc = "exited", !.status = ExitStatus(TBROK_EXIT)]
    /\ UNCHANGED <<pc, lc, caseNo, results, verdicts, last, fs, cred, chmod_cred>>
    /\ UNCHANGED otherVarsChm

\* main() of chmod05_child.c, lines 45-69; envFail: chmod fails for a reason
\* of the environment
chmod05_child_main ==
    /\ prog = "chmod05" /\ child.pc = "exec"
    /\ \E envFail \in BOOLEAN :
         LET r == IF envFail THEN Fail(EROFS, fs)
                  ELSE sys_chmod(fs, TESTDIR, PERMS, child.cred)
         IN /\ fs' = r.fs
            /\ chmod_cred' = child.cred
            /\ last' = [i |-> 0, ret |-> r.ret, err |-> r.err, mem |-> <<>>]
            /\ child' = [child EXCEPT !.pc = "exited",
                           !.status = ExitStatus(IF r.ret = -1 THEN -1 ELSE 1)]
    /\ UNCHANGED <<pc, lc, caseNo, results, verdicts, cred>>
    /\ UNCHANGED otherVarsChm

\* test_chmod(), lines 68-84, in the parent once the child has exited
test_chmod_wait ==
    /\ prog = "chmod05" /\ pc = "wait" /\ child.pc = "exited"
    /\ LET status == child.status
           dir_mode == st_mode(fs, TESTDIR)
       IN results' =
            IF status = -1 THEN <<Res("TFAIL", "chmod failed")>>
            ELSE IF (PERMS \ S_ISGID) # dir_mode THEN <<Res("TFAIL", "Incorrect modes")>>
            ELSE <<Res("TPASS", "Functionality of chmod successful")>>
    /\ verdicts' = verdicts \cup Types(results')
    /\ child' = [child EXCEPT !.pc = "reaped"]
    /\ Advance(0, 1)
    /\ UNCHANGED <<last, fs, cred, chmod_cred>>
    /\ UNCHANGED otherVarsChm

\* struct tst_test, lines 113-120: no cleanup hook; the process exits
chmod05_exit ==
    /\ prog = "chmod05" /\ pc = "cleanup"
    /\ pc' = "done"
    /\ UNCHANGED <<lc, caseNo, results, verdicts, last, fs, cred, child, chmod_cred>>
    /\ UNCHANGED otherVarsChm

\* ------------------------------------------------------------- rename07 (run)
mname == "/tmp/rename07_mname"
fdir == "/tmp/rename07_fdir"

otherVarsRen == <<prog, run, fs_left, statbuf, leaseVars, STD_LOOP_COUNT, caseNo, tc, open_files, kver, brkCase,
                  longpathname, cred, child, chmod_cred>>

\* lines 109-122 with plain stat() calls whose failure is not looked at
rename07_setup_unchecked ==
    /\ prog = "rename07_run" /\ pc = "setup"
    /\ statbuf' = {p \in {fdir, mname} : fs[p].type # "none"}
    /\ pc' = "run"
    /\ results' = <<>>
    /\ UNCHANGED <<lc, last, fs, tmpdir, verdicts>>
    /\ UNCHANGED <<prog, run, fs_left, leaseVars, STD_LOOP_COUNT, caseNo, tc, open_files,
                   kver, brkCase, longpathname, cred, child, chmod_cred>>

\* setup(), rename07_run.c lines 109-122: SAFE_STAT of fdir, then of mname; a
\* failing SAFE_STAT is tst_brkm(TBROK, cleanup, ...): cleanup(), then exit
rename07_setup ==
    /\ prog = "rename07_run" /\ pc = "setup"
    /\ IF fs[fdir].type = "none"
       THEN Broken /\ statbuf' = {}
       ELSE IF fs[mname].type = "none"
       THEN Broken /\ statbuf' = {fdir}
       ELSE /\ statbuf' = {fdir, mname}
            /\ pc' = "run"
            /\ results' = <<>>
            /\ UNCHANGED verdicts
    /\ UNCHANGED <<lc, last, fs, tmpdir>>
    /\ UNCHANGED <<prog, run, fs_left, leaseVars, STD_LOOP_COUNT, caseNo, tc, open_files,
                   kver, brkCase, longpathname, cred, child, chmod_cred>>

\* lines 88-98 with ENOTDIR taken for any failure
rename07_result_any_errno(ret, err) ==
    IF ret # -1 THEN Res("TFAIL", "succeeded unexpectedly")
    ELSE Res("TPASS", "rename() returned ENOTDIR")

\* lines 88-98: the result of one iteration
rename07_result(ret, err) ==
    IF ret # -1 THEN Res("TFAIL", "succeeded unexpectedly")
    ELSE IF err # ENOTDIR THEN Res("TFAIL", "Expected ENOTDIR")
    ELSE Res("TPASS", "rename() returned ENOTDIR")

\* one iteration of the loop of main(), lines 80-99; rename() may also fail
\* for a reason of the environment
rename07_iteration ==
    /\ prog = "rename07_run" /\ pc = "run"
    /\ \E r \in {sys_rename(fs, fdir, mname), Fail(EACCES, fs)} :
         /\ last' = [i |-> lc, ret |-> r.ret, err |-> r.err, mem |-> <<>>]
         /\ fs' = r.fs
         /\ results' = <<rename07_result(r.ret, r.err)>>
    /\ verdicts' = verdicts \cup Types(results')
    /\ lc' = lc + 1
    /\ pc' = IF lc + 1 < STD_LOOP_COUNT THEN "run" ELSE "cleanup"
    /\ UNCHANGED tmpdir
    /\ UNCHANGED otherVarsRen

\* lines 101-102 and cleanup(), lines 128-129
rename07_cleanup ==
    /\ prog = "rename07_run" /\ pc = "cleanup"
    /\ pc' = "done"
    /\ UNCHANGED <<lc, results, verdicts, last, fs, tmpdir>>
    /\ UNCHANGED otherVarsRen

\* ------------------------------------------------------------- fixture programs
r04_fdir == "/tmp/rename04_fdir"
r04_mdir == "/tmp/rename04_mdir"
r04_tstfile == "/tmp/rename04_mdir/rename04_tstfile"

\* tst_brkm(TBROK, cleanup, ...): report, cleanup() (tst_rmdir), exit
BrokenFixture ==
    /\ Broken
    /\ tmpdir' = FALSE

\* setup() of the rename07 fixture program, rename07_run.c lines 213-230,
\* then cleanup() and tst_exit() from main(), lines 205-207
rename07_fixture ==
    /\ prog = "rename07_setup" /\ pc = "setup"
    /\ LET mk == sys_mkdir(fs, fdir, Mode0770, cred)
           to == sys_touch(mk.fs, mname, Mode0700, cred)
       IN IF fs[fdir].type # "none"
          THEN BrokenFixture /\ UNCHANGED fs
          ELSE IF mk.ret = -1
          THEN BrokenFixture /\ UNCHANGED fs
          ELSE IF to.ret = -1
          THEN BrokenFixture /\ fs' = mk.fs
          ELSE /\ fs' = to.fs
               /\ tmpdir' = TRUE
               /\ pc' = "cleanup"
               /\ results' = <<>>
               /\ UNCHANGED verdicts
    /\ UNCHANGED <<lc, last>>
    /\ UNCHANGED otherVarsRen

\* setup() of the rename04 fixture program, rename07_run.c lines 352-370
rename04_fixture ==
    /\ prog = "rename04_setup" /\ pc = "setup"
    /\ LET m1 == sys_mkdir(fs, r04_fdir, Mode0770, cred)
           m2 == sys_mkdir(m1.fs, r04_mdir, Mode0770, cred)
           to == sys_touch(m2.fs, r04_tstfile, Mode0700, cred)
       IN IF m1.ret = -1
          THEN BrokenFixture /\ UNCHANGED fs
          ELSE IF m2.ret = -1
          THEN BrokenFixture /\ fs' = m1.fs
          ELSE IF to.ret = -1
          THEN BrokenFixture /\ fs' = m2.fs
          ELSE /\ fs' = to.fs
               /\ tmpdir' = TRUE
               /\ pc' = "cleanup"
               /\ results' = <<>>
               /\ UNCHANGED verdicts
    /\ UNCHANGED <<lc, last>>
    /\ UNCHANGED otherVarsRen

\* cleanup() of the fixture programs, lines 236-243 and 376-383: tst_rmdir()
\* removes tst_tmpdir()'s directory; the fixture paths are absolute, outside it
fixture_cleanup ==
    /\ prog \in {"rename07_setup", "rename04_setup"} /\ pc = "cleanup"
    /\ tmpdir' = FALSE
    /\ pc' = "done"
    /\ UNCHANGED <<lc, results, verdicts, last, fs>>
    /\ UNCHANGED otherVarsRen

\* ------------------------------------------------------------- fcntl lease test
PATH_LS_BRK_T == "/proc/sys/fs/lease-break-time"
LEASE_FILE == "/tmp/file"
FILE_MODE == S_IRWXU \cup S_IRWXG \cup S_IRWXO \cup S_ISUID \cup S_ISGID
\* the value setup writes to lease-break-time
LEASE_BREAK_SET == 45
\* what lease-break-time may hold before the test (45 is the kernel's default)
LeaseBreakTimes == {45, 10, 0}
\* test_cases[]: lease type and conflicting operation
test_cases ==
    <<[lease_type |-> "F_WRLCK", op_type |-> "OP_OPEN_RDONLY"],
      [lease_type |-> "F_WRLCK", op_type |-> "OP_OPEN_WRONLY"],
      [lease_type |-> "F_WRLCK", op_type |-> "OP_OPEN_RDWR"],
      [lease_type |-> "F_WRLCK", op_type |-> "OP_TRUNCATE"],
      [lease_type |-> "F_RDLCK", op_type |-> "OP_OPEN_WRONLY"],
      [lease_type |-> "F_RDLCK", op_type |-> "OP_OPEN_RDWR"],
      [lease_type |-> "F_RDLCK", op_type |-> "OP_TRUNCATE"]>>
lease_tcnt == Len(test_cases)
\* tst_fs_type("."): the three types setup refuses, and another one
FsTypes == {"nfs", "ramfs", "tmpfs", "ext"}

otherVarsLease == <<prog, run, fs_left, statbuf, STD_LOOP_COUNT, tc, open_files, kver,
                    brkCase, longpathname, cred, child, chmod_cred, tmpdir>>

\* setup(), part_001 lines 76-102. tst_brk(TCONF) runs cleanup(), which is
\* empty, and exits. (tst_timer_check, the /proc accesses and sigprocmask do
\* not fail for a root process on Linux.)
lease_setup ==
    /\ prog = "fcntl_lease" /\ pc = "setup"
    /\ ls_brk_t' = lease_break_time
    /\ lease_break_time' = LEASE_BREAK_SET
    /\ IF fs_type \in {"nfs", "ramfs", "tmpfs"}
       THEN /\ results' = <<Res("TCONF", "Cannot do fcntl(F_SETLEASE, F_WRLCK)")>>
            /\ verdicts' = verdicts \cup {"TCONF"}
            /\ pc' = "done"
            /\ UNCHANGED fs
       ELSE LET to == sys_touch(fs, LEASE_FILE, FILE_MODE, cred)
            IN /\ fs' = to.fs
               /\ IF to.ret = -1
                  THEN Broken
                  ELSE /\ pc' = "run"
                       /\ results' = <<>>
                       /\ UNCHANGED verdicts
    /\ UNCHANGED <<lc, caseNo, last, fs_type>>
    /\ UNCHANGED otherVarsLease

\* do_test(i), part_001 lines 104-107
do_test ==
    /\ prog = "fcntl_lease" /\ pc = "run"
    /\ results' = <<Res("TPASS", "No test function defined")>>
    /\ verdicts' = verdicts \cup {"TPASS"}
    /\ Advance(caseNo, lease_tcnt)
    /\ UNCHANGED <<last, fs, leaseVars>>
    /\ UNCHANGED otherVarsLease

\* cleanup(), part_001 lines 112-113: empty
lease_cleanup ==
    /\ prog = "fcntl_lease" /\ pc = "cleanup"
    /\ pc' = "done"
    /\ UNCHANGED <<lc, caseNo, results, verdicts, last, fs, leaseVars>>
    /\ UNCHANGED otherVarsLease

\* ------------------------------------------------------------- the whole
Programs ==
    {"fgetxattr02", "access04", "chmod05", "rename07_run", "rename07_setup",
     "rename04_setup", "fcntl_lease"}
Rerunnable == {"access04", "chmod05", "rename07_setup", "rename04_setup"}

Paths ==
    {FNAME1, DNAME, SNAME1, SNAME2, TESTDIR, mname, fdir, r04_fdir, r04_mdir,
     r04_tstfile, LEASE_FILE}
EmptyFs == [p \in Paths |-> Absent]

\* what the run program of rename07 may find at fdir and at mname
Found == {Absent, Obj("dir", "", "root", "root", Mode0770),
          Obj("reg", "", "root", "root", Mode0700)}
InitFs(p) ==
    IF p = "rename07_run"
    THEN {[EmptyFs EXCEPT ![fdir] = a, ![mname] = b] : a \in Found, b \in Found}
    ELSE {EmptyFs}

Init ==
    /\ prog \in Programs
    /\ run = 1
    /\ pc = "setup"
    /\ STD_LOOP_COUNT \in (IF prog \in {"rename07_setup", "rename04_setup"}
                           THEN {1} ELSE 1..MaxIter)
    /\ lc = 0
    /\ caseNo = 0
    /\ results = <<>>
    /\ verdicts = {}
    /\ last = NoCall
    /\ fs \in InitFs(prog)
    /\ tc = tc_static
    /\ open_files = [fd \in {0, 1, 2} |-> "stdio"]
    /\ kver \in (IF prog = "fgetxattr02" THEN KVers ELSE {<<4, 19, 0>>})
    /\ brkCase = NoBrk
    /\ longpathname = <<>>
    /\ cred = RootCred
    /\ child = NoChild
    /\ chmod_cred = NoCred
    /\ tmpdir = FALSE
    /\ fs_left = fs
    /\ statbuf = {}
    /\ lease_break_time \in (IF prog = "fcntl_lease" THEN LeaseBreakTimes ELSE {0})
    /\ ls_brk_t = 0
    /\ fs_type \in (IF prog = "fcntl_lease" THEN FsTypes ELSE {"ext"})

\* the program is started again on the file system its previous run left
Restart ==
    /\ pc = "done" /\ prog \in Rerunnable /\ run < MaxRuns
    /\ run' = run + 1
    /\ pc' = "setup"
    /\ lc' = 0
    /\ caseNo' = 0
    /\ results' = <<>>
    /\ verdicts' = {}
    /\ last' = NoCall
    /\ cred' = RootCred
    /\ child' = NoChild
    /\ chmod_cred' = NoCred
    /\ tmpdir' = FALSE
    /\ fs_left' = fs
    /\ statbuf' = {}
    /\ UNCHANGED leaseVars
    /\ UNCHANGED <<prog, STD_LOOP_COUNT, fs, tc, open_files, kver, brkCase, longpathname>>

Next ==
    \/ fgx_setup
    \/ verify_fgetxattr
    \/ fgx_cleanup
    \/ acc_setup
    \/ verify_access
    \/ acc_exit
    \/ chmod05_setup
    \/ test_chmod_fork
    \/ test_chmod_child
    \/ chmod05_child_main
    \/ test_chmod_wait
    \/ chmod05_exit
    \/ rename07_setup
    \/ rename07_iteration
    \/ rename07_cleanup
    \/ rename07_fixture
    \/ rename04_fixture
    \/ fixture_cleanup
    \/ lease_setup
    \/ do_test
    \/ lease_cleanup
    \/ Restart

Spec == Init /\ [][Next]_vars

\* ------------------------------------------------------------- claims
Fgx == prog = "fgetxattr02"
Called == last.i # NoCase
HasType(t) == t \in Types(results)
HasMsg(t, m) == \E k \in 1..Len(results) : results[k] = Res(t, m)
PayloadMsgs == {"wrong value", "got the right value"}
PayloadCount == Cardinality({k \in 1..Len(results) : results[k].msg \in PayloadMsgs})
First20(buf) == SubSeq(buf, 1, IF Len(buf) < XATTR_TEST_VALUE_SIZE THEN Len(buf)
                                ELSE XATTR_TEST_VALUE_SIZE)
\* the errno a case expects on the running kernel
ExpectedErrno(i) ==
    IF TC(tc_static, i).exp_err = ENODATA /\ tst_kvercmp(kver, 3, 0, 0) < 0
    THEN EPERM ELSE TC(tc_static, i).exp_err

\* C1: in verify_fgetxattr a case whose exp_ret is -1 (FIFO, char, block,
\* socket) reports TPASS only if fgetxattr returned -1 and the errno is the
\* expected one (ENODATA, EPERM before kernel 3.0.0); a non-negative return
\* on such a case reports no TPASS.
C1_NegativeCasePassesOnlyOnExpectedErrno ==
    (Fgx /\ Called /\ TC(tc_static, last.i).exp_ret = -1 /\ HasType("TPASS"))
        => (last.ret = -1 /\ last.err = ExpectedErrno(last.i))

\* C2: whenever fgetxattr returns a non-negative value and the payload is
\* compared, the payload check reports exactly one result: TPASS "got the
\* right value" if the first 20 bytes of the buffer are the test value, TFAIL
\* "wrong value" otherwise; a differing value never reports the TPASS.
C2_PayloadCheckReportsOneResult ==
    (Fgx /\ Called /\ last.ret >= 0 /\ pc # "killed")
        => /\ PayloadCount = 1
           /\ IF First20(last.mem) = XATTR_TEST_VALUE
              THEN HasMsg("TPASS", "got the right value")
              ELSE /\ HasMsg("TFAIL", "wrong value")
                   /\ ~HasMsg("TPASS", "got the right value")

C4_TableImmutable ==
    (Fgx /\ pc \in {"cleanup", "done"})
        => \A k \in 1..fgx_tcnt :
             /\ tc[k].exp_err = tc_static[k].exp_err
             /\ tc[k].exp_ret = tc_static[k].exp_ret

\* C4 (amended): exp_ret (like fname and size) of every tc[] entry never
\* changes; exp_err changes only on a kernel older than 3.0.0, and only from
\* ENODATA to EPERM; on kernel 3.0.0 and later it never changes.
C4_OnlyExpErrOnOldKernels ==
    Fgx => \A k \in 1..fgx_tcnt :
             /\ tc[k].exp_ret = tc_static[k].exp_ret
             /\ tc[k].fname = tc_static[k].fname
             /\ tc[k].size = tc_static[k].size
             /\ \/ tc[k].exp_err = tc_static[k].exp_err
                \/ /\ tst_kvercmp(kver, 3, 0, 0) < 0
                   /\ tc_static[k].exp_err = ENODATA
                   /\ tc[k].exp_err = EPERM

C4_Witness ==
    /\ Fgx /\ pc = "done" /\ lc = 2
    /\ tst_kvercmp(kver, 3, 0, 0) < 0
    /\ \A k \in 4..fgx_tcnt : tc[k].exp_err = EPERM
    /\ \A k \in 1..3 : tc[k].exp_err = 0

\* C5: whenever verify_fgetxattr(i) is invoked, tc[i].fd is a descriptor the
\* test opened on tc[i].fname and tc[i].ret_value is an allocated buffer, so
\* that the regular-file case retrieves the 20 bytes that were set.
C5_FixtureEstablishedBeforeVerify ==
    (Fgx /\ Called /\ pc \in {"run", "cleanup"})
        => /\ TC(tc, last.i).fd \in DOMAIN open_files
           /\ open_files[TC(tc, last.i).fd] = TC(tc, last.i).fname
           /\ TC(tc, last.i).ret_value # NULL

\* C6: verify_access(n) reports TPASS only if access(tcases[n].pathname,
\* tcases[n].mode) was called and returned -1 with errno tcases[n].exp_errno.
C6_AccessPassOnlyOnExpectedErrno ==
    (prog = "access04" /\ HasType("TPASS"))
        => /\ Called
           /\ last.ret = -1
           /\ last.err = tcases[last.i + 1].exp_errno

\* C7: when the forked child of chmod05 executes chmod(TESTDIR, PERMS) the
\* caller is not root, owns the directory (nobody), and neither its effective
\* gid nor a supplementary gid is the directory's group (bin).
C7_ChmodRunsAsUnprivilegedOwner ==
    (prog = "chmod05" /\ chmod_cred # NoCred)
        => /\ chmod_cred.euid # "root"
           /\ chmod_cred.euid = "nobody"
           /\ chmod_cred.euid = fs[TESTDIR].uid
           /\ fs[TESTDIR].gid = "bin"
           /\ fs[TESTDIR].gid \notin (chmod_cred.groups \cup {chmod_cred.egid})

Ren == prog = "rename07_run"
FixtureOK == fs[fdir].type = "dir" /\ fs[mname].type = "reg"

\* every iteration of rename07 leaves exactly one result, TPASS exactly for
\* -1/ENOTDIR, and a run that passed setup ends only after all iterations
C8_OneResultPerIteration ==
    Ren => /\ Called
              => /\ last.i = lc - 1
                 /\ Len(results) = 1
                 /\ results[1].ttype \in {"TPASS", "TFAIL"}
                 /\ results[1].ttype = "TPASS" <=> (last.ret = -1 /\ last.err = ENOTDIR)
           /\ (pc \in {"cleanup", "done"} /\ "TBROK" \notin verdicts)
              => (lc = STD_LOOP_COUNT /\ Called)

C9_FixtureBuilderIdempotent ==
    (prog \in {"chmod05", "rename07_setup", "rename04_setup"} /\ run = 2 /\ pc # "setup")
        => ("TBROK" \notin verdicts /\ fs = fs_left)

\* C10: once setup of access04 has completed and before any case runs, FNAME1
\* exists, DNAME is a regular file, SNAME1 and SNAME2 are symlinks to each
\* other, and longpathname is longer than PATH_MAX characters.
C10_AccessFixtureReady ==
    (prog = "access04" /\ pc = "run" /\ lc = 0 /\ caseNo = 0)
        => /\ fs[FNAME1].type # "none"
           /\ fs[DNAME].type = "reg"
           /\ fs[SNAME1].type = "lnk" /\ fs[SNAME1].target = SNAME2
           /\ fs[SNAME2].type = "lnk" /\ fs[SNAME2].target = SNAME1
           /\ Len(longpathname) > PATH_MAX

\* C11: in the rename07 run program a failing setup (stat of fdir or of mname
\* fails) goes straight to cleanup and the end of the process with TBROK:
\* rename() is never called and no TPASS or TFAIL is reported; and rename() is
\* only ever called after both stats succeeded.
C11_SetupFailureRunsNoCase ==
    Ren => /\ (pc # "setup" /\ statbuf # {fdir, mname})
              => /\ pc = "done"
                 /\ verdicts = {"TBROK"}
                 /\ results = <<Res("TBROK", "setup")>>
                 /\ ~Called
                 /\ lc = 0
           /\ Called => statbuf = {fdir, mname}
           /\ "TBROK" \in verdicts => (~Called /\ verdicts = {"TBROK"})

C11_Witness ==
    Ren /\ pc = "done" /\ statbuf = {fdir} /\ verdicts = {"TBROK"} /\ ~Called

\* C12: on every path by which the fcntl F_SETLEASE test ends after setup has
\* overwritten lease-break-time with 45 (all cases done, or TCONF on
\* NFS/RAMFS/TMPFS), cleanup has restored lease-break-time to the value setup
\* saved in ls_brk_t.
C12_LeaseBreakTimeRestored ==
    (prog = "fcntl_lease" /\ pc = "done") => lease_break_time = ls_brk_t

\* C13: in test_chmod, if the child's chmod failed (the child returned -1) the
\* parent reports TFAIL "chmod failed" and returns without stat-ing the
\* directory; otherwise it reports exactly one result, TPASS if and only if
\* the directory's mode after the child's exit is PERMS & ~S_ISGID.
C13_ParentSeesChildFailure ==
    (prog = "chmod05" /\ child.pc = "reaped")
        => IF child.status = ExitStatus(-1)
           THEN results = <<Res("TFAIL", "chmod failed")>>
           ELSE /\ Len(results) = 1
                /\ results[1].ttype \in {"TPASS", "TFAIL"}
                /\ results[1].msg # "chmod failed"
                /\ results[1].ttype = "TPASS" <=> st_mode(fs, TESTDIR) = PERMS \ S_ISGID

\* the second half of C13 alone: when the child did not return -1, the parent
\* reports one result, TPASS exactly for the mode PERMS & ~S_ISGID
C13_OtherwiseModeDecides ==
    (prog = "chmod05" /\ child.pc = "reaped" /\ child.status # ExitStatus(-1))
        => /\ Len(results) = 1
           /\ results[1].ttype = "TPASS" <=> st_mode(fs, TESTDIR) = PERMS \ S_ISGID

====
